---- MODULE Spec2Model ----
(***************************************************************************)
(* Model of script/boardProgressbar.js: subtask progress aggregation, the  *)
(* two toggle entry points, the progress indicator of a task card, the     *)
(* detail overlay and the whole-array PUT to the remote store.             *)
(*                                                                         *)
(* JavaScript numbers are IEEE-754 doubles.  The percentage is computed as *)
(* Math.round((completed / total) * 100); the division and the             *)
(* multiplication each round to a 53-bit significand, so both are modelled *)
(* with their rounding (round to nearest, ties to even).                   *)
(***************************************************************************)
EXTENDS Integers, Sequences, FiniteSets, TLC

(* ------------------------------ bounds --------------------------------- *)
MaxSubtasks == 2       \* longest subtask array of a task on the board
MaxIndex == 2          \* largest subtaskIndex passed to a toggle
MaxCalls == 2          \* number of toggle invocations in one run
MaxPctLen == 40        \* longest array handed to the percentage functions

(* ------------------- IEEE-754 double arithmetic ------------------------ *)
\* A positive double is significand * 2^(exp - 52) with a 53-bit significand,
\* held as <<leading bit, limb, limb, limb, limb>>: the leading 1 followed
\* by four limbs of LimbBits bits each, most significant first.
LimbBits == 13

Limb == 2 ^ LimbBits

Zero == [zero |-> TRUE, mant |-> <<>>, exp |-> 0]

\* Scale a up by powers of two until a / b is in [1, 2).
RECURSIVE Normalise(_, _, _)
Normalise(a, b, s) ==
    IF a >= b THEN [num |-> a, shift |-> s] ELSE Normalise(2 * a, b, s + 1)

\* Round an exact significand to 53 bits, ties to even: m is the significand
\* truncated, guard the first dropped bit, sticky whether a later one is set.
RoundNearestEven(m, guard, sticky, exp) ==
    LET up == guard = 1 /\ (sticky \/ (m[5] % 2) = 1)
        open == {i \in 2..5 : m[i] # Limb - 1}
    IN  IF ~up THEN [zero |-> FALSE, mant |-> m, exp |-> exp]
        ELSE IF open = {}
             THEN [zero |-> FALSE, mant |-> <<1, 0, 0, 0, 0>>, exp |-> exp + 1]
             ELSE LET k == CHOOSE i \in open : \A j \in open : j <= i
                  IN [zero |-> FALSE,
                      mant |-> [i \in 1..5 |->
                                  IF i < k THEN m[i] ELSE IF i = k THEN m[i] + 1 ELSE 0],
                      exp  |-> exp]

\* The double nearest to a / b, for integers 0 <= a and 0 < b.
DoubleDiv(a, b) ==
    IF a = 0 THEN Zero
    ELSE LET nm == Normalise(a, b, 0)
             r0 == nm.num - b
             d1 == (r0 * Limb) \div b
             r1 == (r0 * Limb) % b
             d2 == (r1 * Limb) \div b
             r2 == (r1 * Limb) % b
             d3 == (r2 * Limb) \div b
             r3 == (r2 * Limb) % b
             d4 == (r3 * Limb) \div b
             r4 == (r3 * Limb) % b
             guard == (2 * r4) \div b
             r5 == (2 * r4) % b
         IN RoundNearestEven(<<1, d1, d2, d3, d4>>, guard, r5 # 0, 0 - nm.shift)

\* The double nearest to x * f, for a double x and an integer f in 2..Limb.
DoubleMul(x, f) ==
    IF x.zero THEN Zero
    ELSE LET m == x.mant
             \* exact product, limb by limb from the least significant
             v4 == m[5] * f
             v3 == m[4] * f + (v4 \div Limb)
             v2 == m[3] * f + (v3 \div Limb)
             v1 == m[2] * f + (v2 \div Limb)
             top == m[1] * f + (v1 \div Limb)
             \* the product has sh more bits than a significand
             sh == CHOOSE k \in 0..LimbBits : 2 ^ k <= top /\ top < 2 ^ (k + 1)
             T == 2 ^ sh
             \* shift right by sh bits, limb by limb from the most significant
             c1 == (top % T) * Limb + (v1 % Limb)
             c2 == (c1 % T) * Limb + (v2 % Limb)
             c3 == (c2 % T) * Limb + (v3 % Limb)
             c4 == (c3 % T) * Limb + (v4 % Limb)
             dropped == c4 % T
         IN RoundNearestEven(<<top \div T, c1 \div T, c2 \div T, c3 \div T, c4 \div T>>,
                             IF sh = 0 THEN 0 ELSE (2 * dropped) \div T,
                             sh > 0 /\ (2 * dropped) % T # 0,
                             x.exp + sh)

\* Math.round of a double in [0, 2^LimbBits): floor(x + 0.5), computed exactly
\* from the leading 14 bits of the significand.
MathRound(x) ==
    IF x.zero THEN 0
    ELSE IF x.exp < 0 - 1 THEN 0
    ELSE LET lead == x.mant[1] * Limb + x.mant[2]
         IN (lead \div (2 ^ (LimbBits - x.exp))) + ((lead \div (2 ^ (LimbBits - 1 - x.exp))) % 2)

(* ------------------------ percentage functions ------------------------- *)
\* A JavaScript value handed to a percentage function.
NonArrayKinds == {"undefined", "null", "object", "number"}

ArrayValue(elems) == [kind |-> "array", elems |-> elems]

NonArrayValue(k) == [kind |-> k, elems |-> <<>>]

\* subtasks.filter(subtask => subtask.completed).length
CountCompleted(subtasks) ==
    Cardinality({i \in 1..Len(subtasks) : subtasks[i].completed})

\* total === 0 ? 0 : Math.round((completed / total) * 100)
RoundedPercentage(completed, total) ==
    IF total = 0 THEN 0
    ELSE MathRound(DoubleMul(DoubleDiv(completed, total), 100))

Returned(v, console) == [threw |-> FALSE, value |-> v, console |-> console]

Threw == [threw |-> TRUE, value |-> 0, console |-> "none"]

calculateProgress(subtasks) ==
    IF subtasks.kind # "array" THEN Returned(0, "warn")
    ELSE Returned(RoundedPercentage(CountCompleted(subtasks.elems),
                                    Len(subtasks.elems)), "none")

calculateProgressPercentage(subtasks) ==
    IF subtasks.kind # "array" THEN Threw
    ELSE Returned(RoundedPercentage(CountCompleted(subtasks.elems),
                                    Len(subtasks.elems)), "none")

\* The inline computation of toggleSubtaskCompletion, on task.subtasks.
inlineProgress(subtasks) ==
    [completed |-> CountCompleted(subtasks),
     total |-> Len(subtasks),
     progressPercentage |-> RoundedPercentage(CountCompleted(subtasks), Len(subtasks))]

(* ------------------------------- state --------------------------------- *)
VARIABLES
    tasks,        \* the in-memory tasks, by identifier
    dom,          \* the progress indicator of each task card
    overlay,      \* the detail overlay (#taskOverlay / #overlayDetails)
    calls,        \* the toggle invocations: arguments, position, outcome
    putLog,       \* every PUT issued so far, in order of issue
    remote,       \* the remote store: subtask array stored under each path
    lastApplied,  \* the call whose PUT the remote store applied last (0: none)
    arg,          \* value handed to a percentage function
    ret           \* what that percentage function did

vars == <<tasks, dom, overlay, calls, putLog, remote, lastApplied, arg, ret>>

TaskIds == {"t1", "t2"}        \* tasks known to findTaskInData

UnknownId == "t9"              \* an identifier findTaskInData does not know

Calls == 1..MaxCalls

Indices == 0..MaxIndex         \* JavaScript indices are 0-based

Category(taskId) == IF taskId = "t1" THEN "todo" ELSE "done"

Subtask(b) == [completed |-> b]

RECURSIVE SubtaskArrays(_)
SubtaskArrays(n) ==
    IF n = 0 THEN {<<>>}
    ELSE LET shorter == SubtaskArrays(n - 1)
         IN shorter \cup {Append(s, Subtask(b)) :
                            s \in {x \in shorter : Len(x) = n - 1}, b \in BOOLEAN}

\* c completed subtasks followed by n - c open ones
ShapedArray(n, c) == [i \in 1..n |-> Subtask(i <= c)]

IdleCall == [fn |-> "none", taskId |-> "", index |-> 0, pc |-> "idle",
             outcome |-> "none", put |-> "none", console |-> "none"]

NoArg == NonArrayValue("undefined")

NoRet == [fn |-> "none", threw |-> FALSE, value |-> 0, console |-> "none"]

\* Task lookup collaborator: the task object, or nothing.
findTaskInData(taskId) == IF taskId \in TaskIds THEN {tasks[taskId]} ELSE {}

\* Template collaborator: what the overlay shows for a task.
getBoardOverlayTemplate(category, task) ==
    [category |-> category, subtasks |-> task.subtasks]

\* The task card as first rendered; the card may be missing from the page.
InitialIndicator(task, present) ==
    [container |-> present,
     display |-> "block",
     width |-> RoundedPercentage(CountCompleted(task.subtasks), Len(task.subtasks)),
     color |-> IF CountCompleted(task.subtasks) = 0 THEN "lightgray" ELSE "blue",
     counter |-> <<CountCompleted(task.subtasks), Len(task.subtasks)>>]

Board(s, present, d) ==
    /\ tasks = [t \in TaskIds |->
                  [id |-> t, category |-> Category(t),
                   hasSubtasks |-> (t = "t1"),
                   subtasks |-> IF t = "t1" THEN s ELSE <<>>]]
    /\ dom = [t \in TaskIds |-> InitialIndicator(tasks[t], present /\ t = "t1")]
    /\ overlay = [display |-> d,
                  details |-> getBoardOverlayTemplate(Category("t1"), tasks["t1"])]
    /\ calls = [c \in Calls |-> IdleCall]
    /\ putLog = <<>>
    /\ remote = [t \in TaskIds |-> tasks[t].subtasks]
    /\ lastApplied = 0

\* Task "t1" owns a subtask array; task "t2" has no subtasks property.
InitBoard ==
    \E s \in SubtaskArrays(MaxSubtasks), present \in BOOLEAN, d \in {"block", "none"} :
        Board(s, present, d)

Init ==
    /\ InitBoard
    /\ arg = NoArg
    /\ ret = NoRet

(* --------------------------- DOM collaborators ------------------------- *)
\* The second declaration of updateProgressBar is the one the page runs (a
\* later function declaration of the same name replaces the earlier one).
\* args are the arguments passed after taskId; a parameter beyond Len(args)
\* is undefined, and undefined > 0 is false.
updateProgressBar(d, args) ==
    IF ~d.container THEN d
    ELSE IF Len(args) >= 3 /\ args[3] > 0
         THEN [d EXCEPT !.display = "block",
                        !.width = args[1],
                        !.color = IF args[1] = 0 THEN "lightgray" ELSE "blue",
                        !.counter = <<args[2], args[3]>>]
         ELSE [d EXCEPT !.container = FALSE]

updateOverlayIfVisible(ov, category, task) ==
    IF ov.display = "block"
    THEN [ov EXCEPT !.details = getBoardOverlayTemplate(category, task)]
    ELSE ov

(* ------------------------------ toggling ------------------------------- *)
\* Variant: the bound check admits subtaskIndex = subtasks.length.
HasSubtask_Inclusive(subtasks, subtaskIndex) ==
    subtaskIndex + 1 \in 1..(Len(subtasks) + 1)

\* subtasks[subtaskIndex] is an element of the array
HasSubtask(subtasks, subtaskIndex) == subtaskIndex + 1 \in 1..Len(subtasks)

\* Variant: the flip spills over to the subtask after subtaskIndex.
FlipAt_Spill(subtasks, subtaskIndex) ==
    [j \in 1..Len(subtasks) |->
        IF j = subtaskIndex + 1 \/ j = subtaskIndex + 2
        THEN [subtasks[j] EXCEPT !.completed = ~subtasks[j].completed]
        ELSE subtasks[j]]

\* subtasks[subtaskIndex].completed = !subtasks[subtaskIndex].completed
FlipAt(subtasks, subtaskIndex) ==
    [j \in 1..Len(subtasks) |->
        IF j = subtaskIndex + 1
        THEN [subtasks[j] EXCEPT !.completed = ~subtasks[j].completed]
        ELSE subtasks[j]]

\* Variant: the URL is built without the category.
PutRequest_NoCategory(c, category, taskId, subtasks) ==
    [call |-> c, category |-> "", taskId |-> taskId, body |-> subtasks]

\* Variant: the body holds only the completed subtasks.
PutRequest_CompletedOnly(c, category, taskId, subtasks) ==
    [call |-> c, category |-> category, taskId |-> taskId,
     body |-> SelectSeq(subtasks, LAMBDA st : st.completed)]

\* PUT `${TASK_URL}/${category}/${taskId}/subtasks.json`, body: the array
PutRequest(c, category, taskId, subtasks) ==
    [call |-> c, category |-> category, taskId |-> taskId, body |-> subtasks]

CanStart(c) ==
    /\ calls[c].pc = "idle"
    /\ \A d \in Calls : d < c => calls[d].pc # "idle"

Started(fn, taskId, subtaskIndex, pc, outcome, put, console) ==
    [fn |-> fn, taskId |-> taskId, index |-> subtaskIndex, pc |-> pc,
     outcome |-> outcome, put |-> put, console |-> console]

\* toggleSubtaskCompletion up to its await.
toggleSubtaskCompletion(c, taskId, subtaskIndex) ==
    /\ CanStart(c)
    /\ UNCHANGED <<dom, overlay, remote, lastApplied, arg, ret>>
    /\ LET found == findTaskInData(taskId) IN
       IF found = {} \/ \A task \in found : ~task.hasSubtasks
       THEN /\ calls' = [calls EXCEPT ![c] =
                  Started("toggleSubtaskCompletion", taskId, subtaskIndex,
                          "done", "fulfilled", "none", "none")]
            /\ UNCHANGED <<tasks, putLog>>
       ELSE LET task == tasks[taskId] IN
            IF ~HasSubtask(task.subtasks, subtaskIndex)
            THEN \* TypeError reading .completed of undefined, outside the try
                 /\ calls' = [calls EXCEPT ![c] =
                       Started("toggleSubtaskCompletion", taskId, subtaskIndex,
                               "done", "rejected", "none", "none")]
                 /\ UNCHANGED <<tasks, putLog>>
            ELSE LET flipped == FlipAt(task.subtasks, subtaskIndex) IN
                 /\ tasks' = [tasks EXCEPT ![taskId].subtasks = flipped]
                 /\ putLog' = Append(putLog,
                                PutRequest(c, task.category, taskId, flipped))
                 /\ calls' = [calls EXCEPT ![c] =
                       Started("toggleSubtaskCompletion", taskId, subtaskIndex,
                               "awaiting", "pending", "sent", "none")]

RequestOf(c) ==
    LET k == CHOOSE i \in 1..Len(putLog) : putLog[i].call = c IN putLog[k]

\* The remote store replaces the whole array stored under the path.
ServerApply(c) ==
    /\ calls[c].put = "sent"
    /\ remote' = [remote EXCEPT ![RequestOf(c).taskId] = RequestOf(c).body]
    /\ lastApplied' = c
    /\ calls' = [calls EXCEPT ![c].put = "applied"]
    /\ UNCHANGED <<tasks, dom, overlay, putLog, arg, ret>>

\* The remote store answers with an error status; fetch still resolves.
ServerRefuse(c) ==
    /\ calls[c].put = "sent"
    /\ calls' = [calls EXCEPT ![c].put = "refused"]
    /\ UNCHANGED <<tasks, dom, overlay, putLog, remote, lastApplied, arg, ret>>

progressBarfilling(taskId, category, progressPercentage, completed, total, task) ==
    /\ dom' = [dom EXCEPT ![taskId] =
                 updateProgressBar(dom[taskId], <<progressPercentage, completed, total>>)]
    /\ overlay' = updateOverlayIfVisible(overlay, category, task)

\* Variant: the indicator shows the array as it was sent, not as it is now.
toggleSubtaskCompletionResume_Snapshot(c) ==
    /\ calls[c].fn = "toggleSubtaskCompletion"
    /\ calls[c].pc = "awaiting"
    /\ calls[c].put \in {"applied", "refused"}
    /\ LET task == [tasks[calls[c].taskId] EXCEPT !.subtasks = RequestOf(c).body]
           p == inlineProgress(task.subtasks)
       IN progressBarfilling(calls[c].taskId, task.category, p.progressPercentage,
                             p.completed, p.total, task)
    /\ calls' = [calls EXCEPT ![c].pc = "done", ![c].outcome = "fulfilled"]
    /\ UNCHANGED <<tasks, putLog, remote, lastApplied, arg, ret>>

\* toggleSubtaskCompletion after its await, the fetch having resolved.
toggleSubtaskCompletionResume(c) ==
    /\ calls[c].fn = "toggleSubtaskCompletion"
    /\ calls[c].pc = "awaiting"
    /\ calls[c].put \in {"applied", "refused"}
    /\ LET task == tasks[calls[c].taskId]
           p == inlineProgress(task.subtasks)
       IN progressBarfilling(calls[c].taskId, task.category, p.progressPercentage,
                             p.completed, p.total, task)
    /\ calls' = [calls EXCEPT ![c].pc = "done", ![c].outcome = "fulfilled"]
    /\ UNCHANGED <<tasks, putLog, remote, lastApplied, arg, ret>>

\* Variant: the catch block undoes the flip.
toggleSubtaskCompletionCatch_Rollback(c) ==
    /\ calls[c].fn = "toggleSubtaskCompletion"
    /\ calls[c].pc = "awaiting"
    /\ calls[c].put = "sent"
    /\ tasks' = [tasks EXCEPT ![calls[c].taskId].subtasks = FlipAt(@, calls[c].index)]
    /\ calls' = [calls EXCEPT ![c].pc = "done", ![c].outcome = "fulfilled",
                              ![c].put = "failed", ![c].console = "error"]
    /\ UNCHANGED <<dom, overlay, putLog, remote, lastApplied, arg, ret>>

\* toggleSubtaskCompletion after its await, the fetch having rejected.
toggleSubtaskCompletionCatch(c) ==
    /\ calls[c].fn = "toggleSubtaskCompletion"
    /\ calls[c].pc = "awaiting"
    /\ calls[c].put = "sent"
    /\ calls' = [calls EXCEPT ![c].pc = "done", ![c].outcome = "fulfilled",
                              ![c].put = "failed", ![c].console = "error"]
    /\ UNCHANGED <<tasks, dom, overlay, putLog, remote, lastApplied, arg, ret>>

\* Persistence collaborator: one PUT of the whole array, keyed by category
\* and task identifier.
syncSubtasksWithFirebase(c, taskId, subtasks, category) ==
    putLog' = Append(putLog, PutRequest(c, category, taskId, subtasks))

updateSubtaskProgress(c, taskId, subtasks, category) ==
    LET progress == calculateProgress(ArrayValue(subtasks)) IN
    /\ dom' = [dom EXCEPT ![taskId] = updateProgressBar(dom[taskId], <<progress.value>>)]
    /\ syncSubtasksWithFirebase(c, taskId, subtasks, category)

updateSubtaskState(c, taskId, subtaskIndex) ==
    /\ CanStart(c)
    /\ taskId \in TaskIds
    /\ UNCHANGED <<overlay, remote, lastApplied, arg, ret>>
    /\ LET task == tasks[taskId]
           subtasks == IF task.hasSubtasks THEN task.subtasks ELSE <<>>
       IN IF ~HasSubtask(subtasks, subtaskIndex)
          THEN /\ calls' = [calls EXCEPT ![c] =
                     Started("updateSubtaskState", taskId, subtaskIndex,
                             "done", "returned", "none", "error")]
               /\ UNCHANGED <<tasks, dom, putLog>>
          ELSE LET flipped == FlipAt(subtasks, subtaskIndex) IN
               /\ tasks' = [tasks EXCEPT ![taskId].subtasks = flipped]
               /\ updateSubtaskProgress(c, task.id, flipped, task.category)
               /\ calls' = [calls EXCEPT ![c] =
                     Started("updateSubtaskState", taskId, subtaskIndex,
                             "awaiting", "returned", "sent", "none")]

\* The write of syncSubtasksWithFirebase has been answered.
syncSubtasksWithFirebaseSettle(c) ==
    /\ calls[c].fn = "updateSubtaskState"
    /\ calls[c].pc = "awaiting"
    /\ calls[c].put \in {"applied", "refused"}
    /\ calls' = [calls EXCEPT ![c].pc = "done"]
    /\ UNCHANGED <<tasks, dom, overlay, putLog, remote, lastApplied, arg, ret>>

\* The write of syncSubtasksWithFirebase has failed: reported, nothing else.
syncSubtasksWithFirebaseFail(c) ==
    /\ calls[c].fn = "updateSubtaskState"
    /\ calls[c].pc = "awaiting"
    /\ calls[c].put = "sent"
    /\ calls' = [calls EXCEPT ![c].pc = "done", ![c].put = "failed",
                              ![c].console = "error"]
    /\ UNCHANGED <<tasks, dom, overlay, putLog, remote, lastApplied, arg, ret>>

Next ==
    \/ \E c \in Calls, taskId \in TaskIds \cup {UnknownId}, i \in Indices :
          toggleSubtaskCompletion(c, taskId, i)
    \/ \E c \in Calls, taskId \in TaskIds, i \in Indices :
          updateSubtaskState(c, taskId, i)
    \/ \E c \in Calls : ServerApply(c)
    \/ \E c \in Calls : ServerRefuse(c)
    \/ \E c \in Calls : toggleSubtaskCompletionResume(c)
    \/ \E c \in Calls : toggleSubtaskCompletionCatch(c)
    \/ \E c \in Calls : syncSubtasksWithFirebaseSettle(c)
    \/ \E c \in Calls : syncSubtasksWithFirebaseFail(c)

Spec == Init /\ [][Next]_vars

(* ---------------- the percentage functions on their own ---------------- *)
PctInputs ==
    {ArrayValue(ShapedArray(n, c)) : n \in 0..MaxPctLen, c \in 0..MaxPctLen}
        \cup {NonArrayValue(k) : k \in NonArrayKinds}

InitPct ==
    /\ Board(<<>>, FALSE, "none")
    /\ arg \in PctInputs
    /\ ret = NoRet

board == <<tasks, dom, overlay, calls, putLog, remote, lastApplied>>

Result(fn, r) ==
    [fn |-> fn, threw |-> r.threw, value |-> r.value, console |-> r.console]

CallCalculateProgress ==
    /\ ret = NoRet
    /\ ret' = Result("calculateProgress", calculateProgress(arg))
    /\ UNCHANGED <<board, arg>>

CallCalculateProgressPercentage ==
    /\ ret = NoRet
    /\ ret' = Result("calculateProgressPercentage", calculateProgressPercentage(arg))
    /\ UNCHANGED <<board, arg>>

CallInlineProgress ==
    /\ ret = NoRet
    /\ arg.kind = "array"
    /\ ret' = Result("toggleSubtaskCompletion",
                     Returned(inlineProgress(arg.elems).progressPercentage, "none"))
    /\ UNCHANGED <<board, arg>>

NextPct ==
    \/ CallCalculateProgress
    \/ CallCalculateProgressPercentage
    \/ CallInlineProgress

SpecPct == InitPct /\ [][NextPct]_vars

(* =============================== claims =============================== *)
Flags(subtasks) == [j \in 1..Len(subtasks) |-> subtasks[j].completed]

\* call c is invoked in this step
Invoked(c) == calls[c].pc = "idle" /\ calls'[c].pc # "idle"

\* the array a toggle of task t works on: task.subtasks, or [] when absent
ArrayOf(t) == IF tasks[t].hasSubtasks THEN tasks[t].subtasks ELSE <<>>

\* call c is invoked in this step on a known task with an index inside its array
InvokedInRange(c) ==
    /\ Invoked(c)
    /\ calls'[c].taskId \in TaskIds
    /\ calls'[c].index + 1 \in 1..Len(ArrayOf(calls'[c].taskId))

\* call c is invoked in this step on a known task with an index outside its array
InvokedOutOfRange(c) ==
    /\ Invoked(c)
    /\ calls'[c].taskId \in TaskIds
    /\ (calls'[c].fn = "updateSubtaskState" \/ tasks[calls'[c].taskId].hasSubtasks)
    /\ calls'[c].index + 1 \notin 1..Len(ArrayOf(calls'[c].taskId))

PutsOf(c) == {k \in 1..Len(putLog) : putLog[k].call = c}

\* C1: for every subtask sequence, each of the three percentage computations
\* yields an integer in [0,100] equal to 100 * completed / total rounded half
\* up, and 0 for the empty sequence.
C1_PercentageIsRoundHalfUp ==
    (ret.fn # "none" /\ arg.kind = "array") =>
        LET total == Len(arg.elems)
            completed == CountCompleted(arg.elems)
        IN /\ ~ret.threw
           /\ ret.value \in 0..100
           /\ ret.value = IF total = 0 THEN 0
                          ELSE (200 * completed + total) \div (2 * total)

\* C8: a percentage function handed a non-array or an empty array returns 0
\* and does not throw.
C8_NonSequenceYieldsZero ==
    (ret.fn \in {"calculateProgress", "calculateProgressPercentage"}
        /\ (arg.kind # "array" \/ arg.elems = <<>>)) =>
        (~ret.threw /\ ret.value = 0)

\* C5: no toggle flow propagates an error: every invocation returns normally
\* or, for the async flow, fulfils.
C5_NoErrorPropagates ==
    \A c \in Calls : calls[c].pc = "done" => calls[c].outcome \in {"fulfilled", "returned"}

\* C2: a toggle at a valid index flips the completed flag at that index and
\* nothing else (same length, same order, all other flags), in both entry
\* points; no other step changes any task.
C2_ToggleFlipsOnlyIndex ==
    [][/\ \A c \in Calls : InvokedInRange(c) =>
             LET t == calls'[c].taskId
                 i == calls'[c].index
                 old == tasks[t].subtasks
                 new == tasks'[t].subtasks
             IN /\ Len(new) = Len(old)
                /\ new[i + 1].completed = ~old[i + 1].completed
                /\ \A j \in 1..Len(old) : j # i + 1 => new[j] = old[j]
                /\ \A u \in TaskIds \ {t} : tasks'[u] = tasks[u]
       /\ (\A c \in Calls : ~InvokedInRange(c)) => tasks' = tasks]_vars

C2_Witness ==
    \E c, d \in Calls :
        /\ calls[c].fn = "toggleSubtaskCompletion" /\ calls[c].put # "none"
        /\ calls[d].fn = "updateSubtaskState" /\ calls[d].put # "none"
        /\ calls[c].index # calls[d].index
        /\ Len(tasks["t1"].subtasks) = 2
        /\ Flags(tasks["t1"].subtasks) = <<TRUE, TRUE>>

\* C3: a toggle at a valid index issues exactly one PUT, whose body is the
\* whole subtask array as it is right after the flip, addressed by the task's
\* category and identifier; no other step issues a PUT.
C3_OnePutWithFlippedArray ==
    [][/\ \A c \in Calls : InvokedInRange(c) =>
             LET t == calls'[c].taskId IN
             putLog' = Append(putLog, [call |-> c, category |-> tasks[t].category,
                                       taskId |-> tasks[t].id,
                                       body |-> tasks'[t].subtasks])
       /\ (\A c \in Calls : ~InvokedInRange(c)) => putLog' = putLog
       /\ \A c \in Calls : Cardinality(PutsOf(c)') <= 1]_vars

C3_Witness ==
    /\ Len(putLog) = 1
    /\ calls[1].index = 1
    /\ calls[1].taskId = "t1"
    /\ Flags(remote["t1"]) = <<FALSE, FALSE>>
    /\ Flags(putLog[1].body) = <<FALSE, TRUE>>
    /\ Flags(tasks["t1"].subtasks) = <<FALSE, TRUE>>

\* C4: a toggle at an index outside the task's subtask array changes no flag
\* and no length and issues no PUT, in both entry points.
C4_OutOfRangeNoEffect ==
    [][\A c \in Calls : InvokedOutOfRange(c) =>
          (tasks' = tasks /\ putLog' = putLog /\ calls'[c].put = "none")]_vars

C4_Witness ==
    \E c, d \in Calls :
        /\ calls[c].fn = "toggleSubtaskCompletion" /\ calls[d].fn = "updateSubtaskState"
        /\ calls[c].taskId = "t1" /\ calls[d].taskId = "t1"
        /\ Len(tasks["t1"].subtasks) = 2
        /\ calls[c].index = 2 /\ calls[d].index = 2
        /\ calls[c].pc = "done" /\ calls[d].pc = "done"
        /\ putLog = <<>>

\* C6: when the PUT of a toggle fails, the flip stays in memory, no further
\* PUT is issued for it, and the flow completes normally.
C6_FailedPutKeepsFlip ==
    [][\A c \in Calls : (calls[c].put = "sent" /\ calls'[c].put = "failed") =>
          LET t == calls[c].taskId
              i == calls[c].index
          IN /\ tasks' = tasks
             /\ (\A d \in Calls \ {c} : calls[d].put = "none" \/ calls[d].index # i) =>
                   tasks'[t].subtasks[i + 1].completed = RequestOf(c).body[i + 1].completed
             /\ putLog' = putLog
             /\ calls'[c].pc = "done"
             /\ calls'[c].outcome \in {"fulfilled", "returned"}
             /\ \A d \in Calls : calls'[d].put = "failed" => calls'[d].pc = "done"]_vars

C6_Witness ==
    \E c \in Calls :
        /\ calls[c].fn = "toggleSubtaskCompletion"
        /\ calls[c].put = "failed"
        /\ calls[c].outcome = "fulfilled"
        /\ Cardinality(PutsOf(c)) = 1
        /\ \A d \in Calls \ {c} : calls[d].pc = "idle"
        /\ tasks["t1"].subtasks # remote["t1"]

\* C7: every progress update applied to an indicator keeps the container and
\* shows the percentage and "completed/total" when the task has subtasks; the
\* container is removed only when the task has none.
C7_IndicatorPolicy ==
    [][\A t \in TaskIds : dom'[t] # dom[t] =>
          LET total == Len(tasks'[t].subtasks)
              completed == CountCompleted(tasks'[t].subtasks)
          IN /\ total > 0 =>
                   /\ dom'[t].container
                   /\ dom'[t].width = RoundedPercentage(completed, total)
                   /\ dom'[t].counter = <<completed, total>>
             /\ ~dom'[t].container => total = 0]_vars

\* the PUT issued last for task t
LastIssued(t) ==
    LET ks == {k \in 1..Len(putLog) : putLog[k].taskId = t}
    IN IF ks = {} THEN 0
       ELSE putLog[CHOOSE k \in ks : \A j \in ks : j <= k].call

\* C9: toggles of one task are not serialised and the store is last-write-wins
\* on the whole array: the store holds exactly the body of the PUT it applied
\* last, which agrees with memory whenever that PUT is the one issued last; two
\* overlapping toggles at different indices can leave the store without one of
\* the toggles (the witness).
C9_LastWriteWinsWholeArray ==
    lastApplied # 0 =>
        LET t == RequestOf(lastApplied).taskId IN
        /\ remote[t] = RequestOf(lastApplied).body
        /\ lastApplied = LastIssued(t) => remote[t] = tasks[t].subtasks

C9_Witness ==
    /\ \A c \in {1, 2} :
          /\ calls[c].fn = "toggleSubtaskCompletion"
          /\ calls[c].taskId = "t1"
          /\ calls[c].put = "applied"
          /\ calls[c].outcome = "fulfilled"
    /\ calls[1].index # calls[2].index
    /\ remote["t1"] # tasks["t1"].subtasks
    /\ remote["t1"][calls[2].index + 1] # tasks["t1"].subtasks[calls[2].index + 1]

\* call c of toggleSubtaskCompletion resumes after its await in this step
Resumed(c) ==
    /\ calls[c].fn = "toggleSubtaskCompletion"
    /\ calls[c].pc = "awaiting"
    /\ calls'[c].pc = "done"
    /\ calls'[c].put # "failed"

\* C10: in toggleSubtaskCompletion the flip is in memory when the PUT is issued
\* and nothing is shown then; the indicator is updated only once the PUT has
\* resolved, with the counts and percentage of the in-memory array at that
\* moment; when the PUT rejects nothing is shown and the flip stays.
C10_VisualUpdateAfterPut ==
    [][\A c \in Calls :
          /\ (InvokedInRange(c) /\ calls'[c].fn = "toggleSubtaskCompletion") =>
                LET t == calls'[c].taskId
                    i == calls'[c].index
                    body == putLog'[Len(putLog')].body
                IN /\ body[i + 1].completed = ~tasks[t].subtasks[i + 1].completed
                   /\ tasks'[t].subtasks = body
                   /\ dom' = dom /\ overlay' = overlay
          /\ Resumed(c) =>
                LET t == calls[c].taskId
                    now == tasks[t].subtasks
                IN /\ calls[c].put \in {"applied", "refused"}
                   /\ tasks' = tasks
                   /\ dom[t].container =>
                         /\ dom'[t].counter = <<CountCompleted(now), Len(now)>>
                         /\ dom'[t].width = RoundedPercentage(CountCompleted(now), Len(now))
                   /\ overlay.display = "block" => overlay'.details.subtasks = now
          /\ (calls[c].fn = "toggleSubtaskCompletion" /\ ~Resumed(c)
                /\ \A d \in Calls : ~(Invoked(d) /\ calls'[d].fn = "updateSubtaskState")) =>
                (calls'[c] # calls[c] => (dom' = dom /\ overlay' = overlay))
          /\ (calls[c].fn = "toggleSubtaskCompletion" /\ calls[c].put = "sent"
                /\ calls'[c].put = "failed") =>
                (dom' = dom /\ overlay' = overlay /\ tasks' = tasks)]_vars

C10_Witness ==
    /\ calls[1].fn = "toggleSubtaskCompletion" /\ calls[1].pc = "done"
    /\ calls[1].put = "applied"
    /\ calls[2].fn = "toggleSubtaskCompletion" /\ calls[2].pc = "awaiting"
    /\ calls[1].taskId = "t1" /\ calls[2].taskId = "t1"
    /\ dom["t1"].container
    /\ dom["t1"].counter = <<CountCompleted(tasks["t1"].subtasks), Len(tasks["t1"].subtasks)>>
    /\ dom["t1"].counter[1] # CountCompleted(RequestOf(1).body)

====
